---- MODULE Spec2Model ----
(***************************************************************************)
(* Model of crates/drift/src/lib.rs: the drift-compensating scheduler.     *)
(*                                                                         *)
(* One schedule is created by one of the entry points (schedule,           *)
(* schedule_drifter, schedule_cron, schedule_drifter_cron).  The spawned   *)
(* task is modelled by its position (pc) in the loop:                      *)
(*   "idle"     no entry point called yet                                  *)
(*   "rejected" schedule_drifter_cron returned the parse error             *)
(*   "spawned"  tokio::spawn done, the task has not been polled yet        *)
(*   "top"      at the head of `loop` / `for datetime in upcoming`         *)
(*   "select"   suspended in tokio::select!                                *)
(*   "exec"     suspended in drifter.execute(..).await                     *)
(*   "stopped"  the async block has finished                               *)
(* Time is a discrete clock.  Code between two suspension points takes no  *)
(* time; the clock does not advance while the task has a wake-up pending.  *)
(* tokio::select! without `biased` picks among the ready branches at       *)
(* random: the SelectCancelled and the Execute action of the mode are both *)
(* enabled then.  A sleep is ready as soon as its duration has elapsed, a  *)
(* zero wait at once.  FairSpec adds the fairness of the runtime for the    *)
(* liveness property.  Intervals are positive and far below                *)
(* TimeDelta::MAX, so the conversions of wait and diff never fail.         *)
(***************************************************************************)
EXTENDS Integers, Sequences, FiniteSets, TLC

\* ---- bounds of the model
MaxTime == 6
MaxDur == 3
MaxInterval == 2
MaxCreate == 1
MaxStep == 2

VARIABLES
    clock,              \* current time
    pc,                 \* position of the background task
    mode,               \* "none" | "interval" | "cron"
    drifter,            \* "func" (FuncDrifter, ignores its token) | "custom"
    interval,           \* nominal interval (interval mode)
    cronExpr,           \* the cron expression handed in (cron mode)
    ret,                \* what the entry point returned: "none" | "token" | "error"
    spawned,            \* number of background loops started by tokio::spawn
    parent,             \* token tree: parent[t] = parent of token t, 0 for a root
    cancelled,          \* token tree: cancelled[t] = is_cancelled() of token t
    cancellation_token, \* the root token of the schedule (0 = none)
    child_token,        \* interval: the tick's child; cron: the loop-wide child
    execToken,          \* the token passed to the current/last execute call
    wait,               \* interval mode: duration until next tick
    deadline,           \* deadline of the pinned sleep
    start,              \* Instant::now() taken before execute
    elapsed,            \* start.elapsed() of the last returned execution
    prev,               \* state of the `upcoming` iterator: last yielded instant
    datetime,           \* the fire instant popped last
    now,                \* Utc::now() read when datetime was popped
    inflight,           \* ticks whose execute call has not returned
    started,            \* number of execute calls started
    lastResult,         \* "none" | "Ok" | "Err": result of the last returned execute
    failures,           \* number of execute calls that returned Err
    skipped,            \* number of past-due instants skipped
    createdAt,          \* clock at schedule creation
    freeAt,             \* clock when the loop last became free (task start / execute return)
    cancelCase,         \* where the loop was when the caller called cancel()
    allShort,           \* every returned execution took less than the interval/period
    drifterCancelled,   \* the work unit cancelled the token it was given
    sibling,            \* root token of another schedule (0 = none)
    callerHolds,        \* the caller still holds its handle of the returned token
    handed              \* the tokens passed to the execute calls, in order

vars == << clock, pc, mode, drifter, interval, cronExpr, ret, spawned, parent,
           cancelled, cancellation_token, child_token, execToken, wait,
           deadline, start, elapsed, prev, datetime, now, inflight, started,
           lastResult, failures, skipped, createdAt, freeAt, cancelCase,
           allShort, drifterCancelled, sibling, callerHolds, handed >>

\* ---- inputs
Intervals == 1..MaxInterval
Drifters == {"func", "custom"}
Results == {"Ok", "Err"}

\* A cron expression is abstracted to its number of fields, the step of its
\* fire instants and, for seven-field expressions (year field), the last
\* instant it fires at (until = 0: fires forever).
NoCron == [nfields |-> 0, step |-> 1, until |-> 0]
CronExprs ==
    {[nfields |-> 5, step |-> 1, until |-> 0]}
    \cup {[nfields |-> 6, step |-> s, until |-> 0] : s \in 1..MaxStep}
    \cup {[nfields |-> 7, step |-> 1, until |-> 3]}

\* ---- pure helpers

\* a parser that accepts every expression
FromStr_Lenient(expr) == "Ok"

\* ::cron::Schedule::from_str
FromStr(expr) == IF expr.nfields \in {6, 7} THEN "Ok" ELSE "Err"

\* ScheduleIterator::next: the first fire instant strictly after t
NextAfter(expr, t) == ((t \div expr.step) + 1) * expr.step

HasNext(expr, t) == expr.until = 0 \/ NextAfter(expr, t) <= expr.until

\* plain subtraction, going below zero
SaturatingSub_Wrapping(a, b) == a - b

\* Duration::saturating_sub
SaturatingSub(a, b) == IF a >= b THEN a - b ELSE 0

\* let mut wait = Duration::default();
InitialWait == 0

\* a failed tick that waits the whole interval again
WaitAfterFailure_FullInterval(i, e) == i

\* the Err arm: wait = interval.saturating_sub(elapsed)
WaitAfterFailure(i, e) == SaturatingSub(i, e)

\* no drift compensation: the whole interval after every execution
WaitAfterSuccess_NoCompensation(i, e) == i

\* the Ok path: wait = interval.saturating_sub(elapsed)
WaitAfterSuccess(i, e) == SaturatingSub(i, e)

\* only instants strictly before now are skipped
IsPast_Strict(diff) == diff < 0

\* if diff <= TimeDelta::zero() { ...; continue }
IsPast(diff) == diff <= 0

\* a loop that ends after a successful execution
LoopAfter_BreakOnOk(result) == IF result = "Ok" THEN "stopped" ELSE "top"

\* a loop that ends after a failed execution
LoopAfter_BreakOnErr(result) == IF result = "Err" THEN "stopped" ELSE "top"

\* where the interval loop goes after execute returned: `continue` on Err,
\* the end of the select arm on Ok; both reach the head of `loop`
LoopAfter(result) == "top"

\* ---- cancellation tokens (tokio_util::sync::CancellationToken)
Tokens == DOMAIN parent

RECURSIVE IsAncestor(_, _)
IsAncestor(a, t) ==
    IF parent[t] = 0 THEN FALSE
    ELSE parent[t] = a \/ IsAncestor(a, parent[t])

\* CancellationToken::is_cancelled
IsCancelled(t) == cancelled[t]

\* a cancel that reaches the token and its direct children only
CancelTree_Shallow(t) == [u \in Tokens |-> cancelled[u] \/ u = t \/ parent[u] = t]

\* a cancel that also reaches the ancestors of the token
CancelTree_Bubbling(t) ==
    [u \in Tokens |-> cancelled[u] \/ u = t \/ IsAncestor(t, u) \/ IsAncestor(u, t)]

\* CancellationToken::cancel: the token and all its descendants
CancelTree(t) == [u \in Tokens |-> cancelled[u] \/ u = t \/ IsAncestor(t, u)]

\* CancellationToken::child_token: a child of a cancelled token is born cancelled
ChildCancelled(p) == cancelled[p]

NewToken == Len(parent) + 1

\* the token tree after deriving a child of p
WithChild(p) ==
    /\ parent' = Append(parent, p)
    /\ cancelled' = Append(cancelled, ChildCancelled(p))

\* a sleep that resolves at once
SleepReady_Always == TRUE

\* the sleep branch of select! is ready
SleepReady == clock >= deadline

\* a loop that never observes the cancellation
CancelReady_Never == FALSE

\* the cancelled() branch of select! is ready
CancelReady == IsCancelled(cancellation_token)

Init ==
    /\ clock = 0
    /\ pc = "idle"
    /\ mode = "none"
    /\ drifter = "func"
    /\ interval = 0
    /\ cronExpr = NoCron
    /\ ret = "none"
    /\ spawned = 0
    /\ parent = << >>
    /\ cancelled = << >>
    /\ cancellation_token = 0
    /\ child_token = 0
    /\ execToken = 0
    /\ wait = 0
    /\ deadline = 0
    /\ start = 0
    /\ elapsed = 0
    /\ prev = 0
    /\ datetime = 0
    /\ now = 0
    /\ inflight = {}
    /\ started = 0
    /\ lastResult = "none"
    /\ failures = 0
    /\ skipped = 0
    /\ createdAt = 0
    /\ freeAt = 0
    /\ cancelCase = "none"
    /\ allShort = TRUE
    /\ drifterCancelled = FALSE
    /\ sibling = 0
    /\ callerHolds = FALSE
    /\ handed = << >>

\* ---- entry points

\* schedule / schedule_drifter
schedule_drifter(i, d) ==
    /\ pc = "idle"
    /\ mode' = "interval"
    /\ drifter' = d
    /\ interval' = i
    /\ parent' = << 0 >>
    /\ cancelled' = << FALSE >>
    /\ cancellation_token' = 1
    /\ spawned' = spawned + 1
    /\ ret' = "token"
    /\ pc' = "spawned"
    /\ createdAt' = clock
    /\ callerHolds' = TRUE
    /\ UNCHANGED << clock, cronExpr, child_token, execToken, wait, deadline,
                    start, elapsed, prev, datetime, now, inflight, started,
                    lastResult, failures, skipped, freeAt, cancelCase,
                    allShort, drifterCancelled,
                    sibling, handed >>

\* schedule_cron / schedule_drifter_cron
schedule_drifter_cron(expr, d) ==
    /\ pc = "idle"
    /\ cronExpr' = expr
    /\ drifter' = d
    /\ createdAt' = clock
    /\ IF FromStr(expr) = "Err"
       THEN /\ ret' = "error"
            /\ pc' = "rejected"
            /\ UNCHANGED << mode, parent, cancelled, cancellation_token,
                            spawned, callerHolds >>
       ELSE /\ mode' = "cron"
            /\ parent' = << 0 >>
            /\ cancelled' = << FALSE >>
            /\ cancellation_token' = 1
            /\ spawned' = spawned + 1
            /\ ret' = "token"
            /\ pc' = "spawned"
            /\ callerHolds' = TRUE
    /\ UNCHANGED << clock, interval, child_token, execToken, wait, deadline,
                    start, elapsed, prev, datetime, now, inflight, started,
                    lastResult, failures, skipped, freeAt, cancelCase,
                    allShort, drifterCancelled,
                    sibling, handed >>

\* ---- the background task of schedule_drifter

\* first poll of the spawned async block, up to `loop`
IntervalTaskStart ==
    /\ pc = "spawned"
    /\ mode = "interval"
    /\ wait' = InitialWait
    /\ freeAt' = clock
    /\ pc' = "top"
    /\ UNCHANGED << clock, mode, drifter, interval, cronExpr, ret, spawned,
                    parent, cancelled, cancellation_token, child_token,
                    execToken, deadline, start, elapsed, prev, datetime, now,
                    inflight, started, lastResult, failures, skipped,
                    createdAt, cancelCase, allShort, drifterCancelled,
                    sibling, callerHolds, handed >>

\* loop head: derive the tick's child token, arm the sleep
IntervalTop ==
    /\ pc = "top"
    /\ mode = "interval"
    /\ child_token' = NewToken
    /\ WithChild(cancellation_token)
    /\ deadline' = clock + wait
    /\ pc' = "select"
    /\ UNCHANGED << clock, mode, drifter, interval, cronExpr, ret, spawned,
                    cancellation_token, execToken, wait, start, elapsed, prev,
                    datetime, now, inflight, started, lastResult, failures,
                    skipped, createdAt, freeAt, cancelCase, allShort,
                    drifterCancelled,
                    sibling, callerHolds, handed >>

\* select! takes the cancelled() branch: break
IntervalSelectCancelled ==
    /\ pc = "select"
    /\ mode = "interval"
    /\ CancelReady
    /\ pc' = "stopped"
    /\ UNCHANGED << clock, mode, drifter, interval, cronExpr, ret, spawned,
                    parent, cancelled, cancellation_token, child_token,
                    execToken, wait, deadline, start, elapsed, prev, datetime,
                    now, inflight, started, lastResult, failures, skipped,
                    createdAt, freeAt, cancelCase, allShort, drifterCancelled,
                    sibling, callerHolds, handed >>

\* execute is started but not awaited: the loop goes on at once
IntervalExecute_Detached ==
    /\ pc = "select"
    /\ mode = "interval"
    /\ SleepReady
    /\ start' = clock
    /\ started' = started + 1
    /\ inflight' = inflight \cup {started + 1}
    /\ execToken' = child_token
    /\ handed' = Append(handed, child_token)
    /\ drifterCancelled' = FALSE
    /\ pc' = "top"
    /\ UNCHANGED << clock, mode, drifter, interval, cronExpr, ret, spawned,
                    parent, cancelled, cancellation_token, child_token, wait,
                    deadline, elapsed, prev, datetime, now, lastResult,
                    failures, skipped, createdAt, freeAt, cancelCase, allShort,
                    sibling, callerHolds >>

\* select! takes the sleep branch: take start, call execute with the tick's
\* child token and await it
IntervalExecute ==
    /\ pc = "select"
    /\ mode = "interval"
    /\ SleepReady
    /\ start' = clock
    /\ started' = started + 1
    /\ inflight' = inflight \cup {started + 1}
    /\ execToken' = child_token
    /\ handed' = Append(handed, child_token)
    /\ drifterCancelled' = FALSE
    /\ pc' = "exec"
    /\ UNCHANGED << clock, mode, drifter, interval, cronExpr, ret, spawned,
                    parent, cancelled, cancellation_token, child_token, wait,
                    deadline, elapsed, prev, datetime, now, lastResult,
                    failures, skipped, createdAt, freeAt, cancelCase, allShort,
                    sibling, callerHolds >>

\* execute returns result: measure elapsed, set the next wait, loop
IntervalReturn(result) ==
    /\ pc = "exec"
    /\ mode = "interval"
    /\ elapsed' = clock - start
    /\ wait' = IF result = "Err"
               THEN WaitAfterFailure(interval, elapsed')
               ELSE WaitAfterSuccess(interval, elapsed')
    /\ inflight' = inflight \ {started}
    /\ lastResult' = result
    /\ failures' = IF result = "Err" THEN failures + 1 ELSE failures
    /\ allShort' = (allShort /\ elapsed' < interval)
    /\ freeAt' = clock
    /\ pc' = LoopAfter(result)
    /\ UNCHANGED << clock, mode, drifter, interval, cronExpr, ret, spawned,
                    parent, cancelled, cancellation_token, child_token,
                    execToken, deadline, start, prev, datetime, now, started,
                    skipped, createdAt, cancelCase, drifterCancelled,
                    sibling, callerHolds, handed >>

\* ---- the background task of schedule_drifter_cron

\* first poll of the spawned async block: the iterator of the instants after
\* now, the loop-wide child token
CronTaskStart ==
    /\ pc = "spawned"
    /\ mode = "cron"
    /\ prev' = clock
    /\ child_token' = NewToken
    /\ WithChild(cancellation_token)
    /\ freeAt' = clock
    /\ pc' = "top"
    /\ UNCHANGED << clock, mode, drifter, interval, cronExpr, ret, spawned,
                    cancellation_token, execToken, wait, deadline, start,
                    elapsed, datetime, now, inflight, started, lastResult,
                    failures, skipped, createdAt, cancelCase, allShort,
                    drifterCancelled,
                    sibling, callerHolds, handed >>

\* loop head: pop the next instant (the loop ends when there is none), skip
\* it when past due, else arm the sleep
CronPop ==
    /\ pc = "top"
    /\ mode = "cron"
    /\ IF ~HasNext(cronExpr, prev)
       THEN /\ pc' = "stopped"
            /\ UNCHANGED << prev, datetime, now, deadline, skipped >>
       ELSE /\ datetime' = NextAfter(cronExpr, prev)
            /\ prev' = NextAfter(cronExpr, prev)
            /\ now' = clock
            /\ IF IsPast(datetime' - now')
               THEN /\ skipped' = skipped + 1
                    /\ pc' = "top"
                    /\ UNCHANGED deadline
               ELSE /\ deadline' = clock + (datetime' - now')
                    /\ pc' = "select"
                    /\ UNCHANGED skipped
    /\ UNCHANGED << clock, mode, drifter, interval, cronExpr, ret, spawned,
                    parent, cancelled, cancellation_token, child_token,
                    execToken, wait, start, elapsed, inflight, started,
                    lastResult, failures, createdAt, freeAt, cancelCase,
                    allShort, drifterCancelled, sibling, callerHolds, handed >>

\* select! takes the cancelled() branch: break
CronSelectCancelled ==
    /\ pc = "select"
    /\ mode = "cron"
    /\ CancelReady
    /\ pc' = "stopped"
    /\ UNCHANGED << clock, mode, drifter, interval, cronExpr, ret, spawned,
                    parent, cancelled, cancellation_token, child_token,
                    execToken, wait, deadline, start, elapsed, prev, datetime,
                    now, inflight, started, lastResult, failures, skipped,
                    createdAt, freeAt, cancelCase, allShort, drifterCancelled,
                    sibling, callerHolds, handed >>

\* execute is handed the loop-wide child token itself
CronExecute_ReuseLoopChild ==
    /\ pc = "select"
    /\ mode = "cron"
    /\ SleepReady
    /\ start' = clock
    /\ started' = started + 1
    /\ inflight' = inflight \cup {started + 1}
    /\ execToken' = child_token
    /\ handed' = Append(handed, child_token)
    /\ drifterCancelled' = FALSE
    /\ pc' = "exec"
    /\ UNCHANGED << clock, mode, drifter, interval, cronExpr, ret, spawned,
                    parent, cancelled, cancellation_token, child_token, wait,
                    deadline, elapsed, prev, datetime, now, lastResult,
                    failures, skipped, createdAt, freeAt, cancelCase, allShort,
                    sibling, callerHolds >>

\* select! takes the sleep branch: take start, call execute with a child of
\* the loop-wide child token and await it
CronExecute ==
    /\ pc = "select"
    /\ mode = "cron"
    /\ SleepReady
    /\ start' = clock
    /\ started' = started + 1
    /\ inflight' = inflight \cup {started + 1}
    /\ execToken' = NewToken
    /\ handed' = Append(handed, NewToken)
    /\ WithChild(child_token)
    /\ drifterCancelled' = FALSE
    /\ pc' = "exec"
    /\ UNCHANGED << clock, mode, drifter, interval, cronExpr, ret, spawned,
                    cancellation_token, child_token, wait, deadline, elapsed,
                    prev, datetime, now, lastResult, failures, skipped,
                    createdAt, freeAt, cancelCase, allShort,
                    sibling, callerHolds >>

\* execute returns result: `continue` on Err, measure elapsed on Ok; both
\* go on with the next instant
CronReturn(result) ==
    /\ pc = "exec"
    /\ mode = "cron"
    /\ elapsed' = clock - start
    /\ inflight' = inflight \ {started}
    /\ lastResult' = result
    /\ failures' = IF result = "Err" THEN failures + 1 ELSE failures
    /\ allShort' = (allShort /\ elapsed' < cronExpr.step)
    /\ freeAt' = clock
    /\ pc' = "top"
    /\ UNCHANGED << clock, mode, drifter, interval, cronExpr, ret, spawned,
                    parent, cancelled, cancellation_token, child_token,
                    execToken, wait, deadline, start, prev, datetime, now,
                    started, skipped, createdAt, cancelCase, drifterCancelled,
                    sibling, callerHolds, handed >>

\* ---- the work unit

\* a Drifter implementation cancels the token it was handed (FuncDrifter
\* never touches its token)
DrifterCancelsToken ==
    /\ pc = "exec"
    /\ drifter = "custom"
    /\ ~drifterCancelled
    /\ cancelled' = CancelTree(execToken)
    /\ drifterCancelled' = TRUE
    /\ UNCHANGED << clock, pc, mode, drifter, interval, cronExpr, ret, spawned,
                    parent, cancellation_token, child_token, execToken, wait,
                    deadline, start, elapsed, prev, datetime, now, inflight,
                    started, lastResult, failures, skipped, createdAt, freeAt,
                    cancelCase, allShort,
                    sibling, callerHolds, handed >>

\* ---- the caller

\* token.cancel() on the returned token
Cancel ==
    /\ ret = "token"
    /\ callerHolds
    /\ cancelCase = "none"
    /\ cancelled' = CancelTree(cancellation_token)
    /\ cancelCase' = IF pc = "exec" THEN "exec"
                     ELSE IF pc = "select" /\ SleepReady THEN "resolved"
                     ELSE IF pc = "stopped" THEN "stopped"
                     ELSE "before"
    /\ UNCHANGED << clock, pc, mode, drifter, interval, cronExpr, ret, spawned,
                    parent, cancellation_token, child_token, execToken, wait,
                    deadline, start, elapsed, prev, datetime, now, inflight,
                    started, lastResult, failures, skipped, createdAt, freeAt,
                    allShort, drifterCancelled, sibling, callerHolds, handed >>

\* a handle that cancels the token when dropped (a drop guard)
DropHandle_Guard ==
    /\ ret = "token"
    /\ callerHolds
    /\ callerHolds' = FALSE
    /\ cancelled' = CancelTree(cancellation_token)
    /\ UNCHANGED << clock, pc, mode, drifter, interval, cronExpr, ret, spawned,
                    parent, cancellation_token, child_token, execToken, wait,
                    deadline, start, elapsed, prev, datetime, now, inflight,
                    started, lastResult, failures, skipped, createdAt, freeAt,
                    cancelCase, allShort, drifterCancelled, sibling, handed >>

\* the caller drops its handle of the returned token without cancelling
\* (the task holds the clone made before the async block)
DropHandle ==
    /\ ret = "token"
    /\ callerHolds
    /\ callerHolds' = FALSE
    /\ UNCHANGED << clock, pc, mode, drifter, interval, cronExpr, ret, spawned,
                    parent, cancelled, cancellation_token, child_token,
                    execToken, wait, deadline, start, elapsed, prev, datetime,
                    now, inflight, started, lastResult, failures, skipped,
                    createdAt, freeAt, cancelCase, allShort, drifterCancelled,
                    sibling, handed >>

\* another schedule is created: its entry point makes a root token of its own
\* (taken right after this schedule's creation; its loop is the same code)
ScheduleSibling ==
    /\ pc = "spawned"
    /\ sibling = 0
    /\ sibling' = NewToken
    /\ parent' = Append(parent, 0)
    /\ cancelled' = Append(cancelled, FALSE)
    /\ UNCHANGED << clock, pc, mode, drifter, interval, cronExpr, ret, spawned,
                    cancellation_token, child_token, execToken, wait, deadline,
                    start, elapsed, prev, datetime, now, inflight, started,
                    lastResult, failures, skipped, createdAt, freeAt,
                    cancelCase, allShort, drifterCancelled, callerHolds,
                    handed >>

\* ---- time

\* the task has a wake-up pending (it runs before the clock moves on)
TaskReady ==
    \/ pc \in {"spawned", "top"}
    \/ pc = "select" /\ (CancelReady \/ SleepReady)

Tick ==
    /\ clock < MaxTime
    /\ ~TaskReady
    /\ pc = "idle" => clock < MaxCreate
    /\ pc = "exec" => clock - start < MaxDur
    /\ clock' = clock + 1
    /\ UNCHANGED << pc, mode, drifter, interval, cronExpr, ret, spawned, parent,
                    cancelled, cancellation_token, child_token, execToken, wait,
                    deadline, start, elapsed, prev, datetime, now, inflight,
                    started, lastResult, failures, skipped, createdAt, freeAt,
                    cancelCase, allShort, drifterCancelled,
                    sibling, callerHolds, handed >>

Next ==
    \/ \E i \in Intervals, d \in Drifters : schedule_drifter(i, d)
    \/ \E expr \in CronExprs, d \in Drifters : schedule_drifter_cron(expr, d)
    \/ IntervalTaskStart
    \/ IntervalTop
    \/ IntervalSelectCancelled
    \/ IntervalExecute
    \/ \E result \in Results : IntervalReturn(result)
    \/ CronTaskStart
    \/ CronPop
    \/ CronSelectCancelled
    \/ CronExecute
    \/ \E result \in Results : CronReturn(result)
    \/ DrifterCancelsToken
    \/ Cancel
    \/ DropHandle
    \/ ScheduleSibling
    \/ Tick

Spec == Init /\ [][Next]_vars

\* a step of the background task that is not a choice of select!: the
\* runtime polls a woken task, and every execute call returns
TaskStep ==
    \/ IntervalTaskStart
    \/ IntervalTop
    \/ CronTaskStart
    \/ CronPop
    \/ \E result \in Results : IntervalReturn(result)
    \/ \E result \in Results : CronReturn(result)

\* select! takes the cancelled() branch
SelectCancelled == IntervalSelectCancelled \/ CronSelectCancelled

\* the task is polled when woken, every execution returns, and the random
\* choice of select! does not avoid the cancelled() branch forever
FairSpec == Spec /\ WF_vars(TaskStep) /\ SF_vars(SelectCancelled)

\* ---- properties

\* the nominal period of the schedule
Period == IF mode = "interval" THEN interval ELSE cronExpr.step

\* the loop is suspended with nothing to do at the current instant
Settled == pc \in {"select", "exec"} /\ ~TaskReady

\* the execution in flight (if any) has so far taken less than the period
InFlightShort == pc = "exec" => clock - start < Period

\* C1: at most one execution of the work unit is in flight in every
\* reachable state, and it is the one started last: execute of tick n+1 is
\* never started before execute of tick n has returned.
C1_AtMostOneInFlight ==
    /\ Cardinality(inflight) <= 1
    /\ inflight \subseteq {started}
    /\ (pc # "exec" => inflight = {})

\* a second tick is in flight after a failure and a cancel call
C1_Witness ==
    /\ started >= 2
    /\ inflight = {started}
    /\ failures >= 1
    /\ cancelCase # "none"

\* C2 (as claimed): once the caller has cancelled the root token before the
\* tick's sleep resolved, or while an execution was in flight, no execution
\* is started any more.
C2_CancelPreventsLaterTicks ==
    [][(cancelCase \in {"before", "exec"}) => (started' = started)]_vars

\* C3: in interval mode the wait is always within 0..interval, and after
\* every returned execution (Ok or Err) with measured time elapsed it is
\* interval - elapsed when elapsed < interval and zero otherwise.
C3_WaitIsMaxZero ==
    mode = "interval" =>
        /\ 0 <= wait
        /\ wait <= interval
        /\ lastResult # "none" =>
              wait = IF elapsed < interval THEN interval - elapsed ELSE 0

\* a failed execution shorter than the interval left the remainder as wait
C3_Witness ==
    /\ mode = "interval"
    /\ lastResult = "Err"
    /\ 0 < elapsed
    /\ elapsed < interval
    /\ wait = interval - elapsed

\* C4: in interval mode without cancellation, while every execution takes
\* less than the interval, tick k starts exactly k*interval after creation
\* (the first one at creation) and floor(t/interval)+1 executions have
\* started by elapsed time t.
C4_NoDrift ==
    (mode = "interval" /\ cancelCase = "none" /\ allShort) =>
        /\ pc = "exec" => start = createdAt + (started - 1) * interval
        /\ (Settled /\ InFlightShort) =>
              started = ((clock - createdAt) \div interval) + 1

\* the third tick is running, two intervals after creation, after
\* executions that took time
C4_Witness ==
    /\ mode = "interval"
    /\ cancelCase = "none"
    /\ allShort
    /\ pc = "exec"
    /\ started = 3
    /\ elapsed > 0
    /\ start = createdAt + 2 * interval

\* C5: a cron schedule only sleeps for and executes a fire instant that was
\* in the future when it was popped; the instant executed is the first one
\* after the loop became free (instants overrun by the previous execution
\* are skipped) and it is executed at that instant, not late.
C5_NeverPastDue ==
    mode = "cron" =>
        /\ pc \in {"select", "exec"} => datetime > now
        /\ pc = "exec" =>
              /\ datetime = NextAfter(cronExpr, freeAt)
              /\ start = datetime

\* an execution overran a fire instant, which was skipped, and the next
\* execution is running
C5_Witness ==
    /\ mode = "cron"
    /\ skipped >= 1
    /\ started >= 2
    /\ pc = "exec"

\* C6: a cron expression that does not parse yields the error and nothing
\* else (no token, no background loop, no execution); an interval schedule
\* always yields a token and exactly one background loop.
C6_ParseFailureSynchronous ==
    /\ (pc # "idle" /\ cronExpr # NoCron /\ cronExpr.nfields \notin {6, 7}) =>
          /\ ret = "error"
          /\ spawned = 0
          /\ cancellation_token = 0
          /\ parent = << >>
          /\ started = 0
    /\ mode = "interval" =>
          /\ ret = "token"
          /\ spawned = 1

\* the caller holds the parse error and time has passed
C6_Witness ==
    /\ pc = "rejected"
    /\ ret = "error"
    /\ clock > createdAt

\* C7 (as claimed): after a failed execution the root token is cancelled
\* (the entry points take no failure policy, so this is stated for the
\* schedules they create).
C7_FailureCancelsToken ==
    failures > 0 => IsCancelled(cancellation_token)

\* C8: a failed execution stays inside the loop: the caller still holds the
\* token it was given, the root token is cancelled only by the caller, the
\* loop stops only on cancellation (or when the cron iterator is exhausted)
\* and in interval mode the wait after a failed execution is the wait a
\* successful execution of the same duration produces.
C8_FailureTolerated ==
    failures > 0 =>
        /\ ret = "token"
        /\ cancelCase = "none" => ~IsCancelled(cancellation_token)
        /\ (pc = "stopped" /\ cancelCase = "none") =>
              (mode = "cron" /\ ~HasNext(cronExpr, prev))
        /\ (mode = "interval" /\ lastResult = "Err") =>
              wait = WaitAfterSuccess(interval, elapsed)
        /\ pc \in {"top", "select", "exec", "stopped"}

\* after a failed execution that took time, later ticks ran
C8_Witness ==
    /\ failures >= 1
    /\ started >= failures + 2
    /\ lastResult = "Err"
    /\ elapsed > 0
    /\ cancelCase = "none"
    /\ pc = "exec"

\* C9 (as claimed): without a cancel call and with only successful
\* executions the token is never cancelled and the work has started at
\* least twice once two periods have elapsed, whatever the durations.
C9_KeepsExecuting ==
    (ret = "token" /\ cancelCase = "none" /\ failures = 0) =>
        /\ ~IsCancelled(cancellation_token)
        /\ (Settled /\ clock - createdAt >= 2 * Period) => started >= 2

\* C9 (amended): without a cancel call and with only successful executions
\* the token is never cancelled and the loop does not stop while the
\* schedule has a further fire instant, whatever the durations; and when
\* every execution takes less than the interval (or the period of a cron
\* expression that fires without end), the work has started at least twice
\* once two periods have elapsed.
C9_KeepsExecutingWhenShort ==
    (ret = "token" /\ cancelCase = "none" /\ failures = 0) =>
        /\ ~IsCancelled(cancellation_token)
        /\ pc = "stopped" => (mode = "cron" /\ ~HasNext(cronExpr, prev))
        /\ ( /\ Settled
             /\ clock - createdAt >= 2 * Period
             /\ allShort
             /\ InFlightShort
             /\ mode = "cron" => cronExpr.until = 0 ) => started >= 2

\* two periods after creation, after successful executions that took time
\* and a work unit that cancelled its own token
C9_Witness ==
    /\ ret = "token"
    /\ cancelCase = "none"
    /\ failures = 0
    /\ allShort
    /\ elapsed > 0
    /\ Settled
    /\ clock - createdAt >= 2 * Period
    /\ started >= 2

\* C10: once the root token is cancelled every token derived from it is
\* cancelled: the one handed to the execution in flight (a grandchild in
\* cron mode) and every one derived afterwards.
C10_CascadesDown ==
    (cancellation_token # 0 /\ IsCancelled(cancellation_token)) =>
        /\ \A t \in Tokens : IsAncestor(cancellation_token, t) => IsCancelled(t)
        /\ pc = "exec" => IsCancelled(execToken)

\* the caller cancelled while a cron execution was in flight; its token,
\* which the work unit did not cancel itself, is cancelled
C10_Witness ==
    /\ mode = "cron"
    /\ pc = "exec"
    /\ cancelCase = "exec"
    /\ ~drifterCancelled
    /\ IsAncestor(child_token, execToken)
    /\ IsCancelled(execToken)

\* the cron iterator has no further fire instant
Exhausted == mode = "cron" /\ ~HasNext(cronExpr, prev)

\* the live handles of the root token: the caller's and the task's clone
RootHandles ==
    (IF callerHolds THEN 1 ELSE 0)
    + (IF pc \in {"spawned", "top", "select", "exec"} THEN 1 ELSE 0)

\* every variable but callerHolds
exceptHandle ==
    << clock, pc, mode, drifter, interval, cronExpr, ret, spawned, parent,
       cancelled, cancellation_token, child_token, execToken, wait, deadline,
       start, elapsed, prev, datetime, now, inflight, started, lastResult,
       failures, skipped, createdAt, freeAt, cancelCase, allShort,
       drifterCancelled, sibling, handed >>

\* the fire instants of the cron expression in (createdAt, clock]
InstantsPassed ==
    LET last == IF cronExpr.until = 0 \/ clock <= cronExpr.until
                THEN clock ELSE cronExpr.until
        n == (last \div cronExpr.step) - (createdAt \div cronExpr.step)
    IN  IF n > 0 THEN n ELSE 0

\* the tokens derived directly from token t
Children(t) == {u \in Tokens : parent[u] = t}

\* C11: a work unit cancelling the token it was handed cancels nothing
\* else: while the caller has not cancelled, the root token (and the cron
\* loop-wide child) stays not cancelled, the loop does not stop, the token
\* of the tick being awaited or executed is not cancelled unless its own
\* work unit cancelled it, and the root token of another schedule is never
\* cancelled, not even by a cancel of this schedule's root.
C11_NoBubbling ==
    /\ sibling # 0 => ~IsCancelled(sibling)
    /\ (cancellation_token # 0 /\ cancelCase = "none") =>
          /\ ~IsCancelled(cancellation_token)
          /\ (mode = "cron" /\ child_token # 0) => ~IsCancelled(child_token)
          /\ (mode = "interval" /\ pc = "select") => ~IsCancelled(child_token)
          /\ (pc = "exec" /\ ~drifterCancelled) => ~IsCancelled(execToken)
          /\ pc = "stopped" => Exhausted

\* the work unit of an earlier cron tick cancelled its token; a later tick
\* is executing with a token that is not cancelled, next to another schedule
C11_Witness ==
    /\ mode = "cron"
    /\ cancelCase = "none"
    /\ sibling # 0
    /\ pc = "exec"
    /\ Len(handed) >= 2
    /\ IsCancelled(handed[1])
    /\ ~IsCancelled(execToken)

\* C12: dropping the caller's handle changes nothing but the handle: the
\* step leaves every other part of the state as it is, and afterwards (the
\* caller never having cancelled) the token is not cancelled, the task
\* still holds its clone while it runs, the loop does not stop and the
\* ticks of short executions start on the nominal cadence.
C12_DropChangesNothing ==
    /\ [][(callerHolds /\ ~callerHolds') => UNCHANGED exceptHandle]_vars
    /\ [](( ret = "token" /\ ~callerHolds /\ cancelCase = "none") =>
            /\ ~IsCancelled(cancellation_token)
            /\ pc = "stopped" => Exhausted
            /\ pc # "stopped" => RootHandles = 1
            /\ (mode = "interval" /\ allShort /\ pc = "exec") =>
                  start = createdAt + (started - 1) * interval)

\* the handle is dropped, the third tick is running on its cadence
C12_Witness ==
    /\ ret = "token"
    /\ ~callerHolds
    /\ cancelCase = "none"
    /\ mode = "interval"
    /\ allShort
    /\ pc = "exec"
    /\ started = 3
    /\ start = createdAt + 2 * interval

\* C13: once the root token is cancelled the loop eventually exits, and once
\* it has exited it stays exited and starts no execution (so only finitely
\* many executions start after the cancel), in both modes, with zero waits
\* and with past-due instants being skipped.
C13_EventuallyStopped ==
    /\ (cancelCase # "none") ~> (pc = "stopped")
    /\ [][(pc = "stopped") => (pc' = "stopped" /\ started' = started)]_vars

\* the caller cancelled during an execution that overran the interval, a
\* further execution started after the cancel, and the loop has exited
C13_Witness ==
    /\ mode = "interval"
    /\ cancelCase = "exec"
    /\ pc = "stopped"
    /\ Len(handed) >= 2
    /\ IsCancelled(handed[Len(handed)])
    /\ ~drifterCancelled

C15_TiedToInstant ==
    mode = "cron" =>
        /\ started <= InstantsPassed
        /\ pc = "exec" =>
              /\ datetime = prev
              /\ start >= datetime
              /\ datetime > freeAt

\* every fire instant since creation has been executed, the second one is
\* running
C15_Witness ==
    /\ mode = "cron"
    /\ pc = "exec"
    /\ started >= 2
    /\ started = InstantsPassed

\* C16 (as claimed): every token handed to an execution is a direct child of
\* the root token, and no token is handed out twice.
C16_HandedChildOfRoot ==
    /\ \A i \in DOMAIN handed : parent[handed[i]] = cancellation_token
    /\ \A i, j \in DOMAIN handed : i < j => handed[i] # handed[j]

\* C16 (amended): every execution is handed a token derived for it alone,
\* in interval mode the tick's child of the root token, in cron mode a child
\* of the loop-wide child of the root; the tokens handed out are pairwise
\* different, later ones newer, and one token is derived per execution
\* (in interval mode one more for a tick that was cancelled while waiting).
C16_HandedFreshToken ==
    /\ Len(handed) = started
    /\ pc = "exec" => execToken = handed[started]
    /\ \A i, j \in DOMAIN handed : i < j => handed[i] < handed[j]
    /\ mode = "interval" =>
          /\ \A i \in DOMAIN handed : parent[handed[i]] = cancellation_token
          /\ Cardinality(Children(cancellation_token)) \in {started, started + 1}
    /\ (mode = "cron" /\ child_token # 0) =>
          /\ parent[child_token] = cancellation_token
          /\ Children(cancellation_token) = {child_token}
          /\ \A i \in DOMAIN handed : parent[handed[i]] = child_token
          /\ Cardinality(Children(child_token)) = started

\* the second cron execution runs with its own grandchild of the root
C16_Witness ==
    /\ mode = "cron"
    /\ pc = "exec"
    /\ Len(handed) = 2
    /\ parent[handed[2]] = child_token
    /\ parent[child_token] = cancellation_token
    /\ handed[1] # handed[2]
====
